---- MODULE Spec2Model ----
(***************************************************************************)
(* Display pipeline of the terminal: the reflow index (LineWrap) kept      *)
(* parallel to the scrollback buffer, the renderer's refresh scheduler     *)
(* (Renderer.queueRefresh / Renderer._refreshLoop), the compositing of a  *)
(* row into styled runs and the pass of Renderer._refresh over the rows of *)
(* the screen.                                                             *)
(*                                                                         *)
(* The reflow index is modelled from the latest revision of LineWrap       *)
(* (src/unnamed/part_000).  The CircularList it wraps is not part of the   *)
(* sources at hand and is modelled as the bounded circular sequence the    *)
(* design document describes.                                              *)
(***************************************************************************)
EXTENDS Integers, Sequences, FiniteSets, TLC

(***************************************************************************)
(* Bounds of the model.                                                    *)
(***************************************************************************)
\* capacities the CircularList is constructed with: 1..MaxCapacity
MaxCapacity == 2
\* logical line indices followed: -MaxLineIndex..MaxLineIndex
MaxLineIndex == 2
\* widths passed to changeLineLength / setLineLength: 1..MaxWidth
MaxWidth == 2
\* number of cells of a buffer line (the width in effect when written)
MaxCols == 3
\* physical row indices followed: -MaxRows..MaxRows
MaxRows == 3
\* ranges the refresh queue holds before queueRefresh is no longer taken
MaxQueue == 5
\* terminal.rows
TerminalRows == 3
\* cells of the row that is composited: up to MaxCells, at 1..MaxCols columns
MaxCells == 4

\* Renderer.ts: the frames to skip while the write buffer is non-empty
MAX_REFRESH_FRAME_SKIP == 5

VARIABLES
    rowIndices,   \* LineWrap._rowIndices: the retained entries, oldest first
    maxLength,    \* the capacity of _rowIndices
    err,          \* the exception the last LineWrap call ended with, or "none"
    lastOp,       \* the last LineWrap method called
    pushOnly      \* TRUE while every call so far was push

VARIABLES
    refreshRowsQueue,       \* Renderer._refreshRowsQueue
    refreshFramesSkipped,   \* Renderer._refreshFramesSkipped
    refreshAnimationFrame,  \* Renderer._refreshAnimationFrame is not null
    framesPending,          \* callbacks handed to requestAnimationFrame, not yet run
    writeBuffer,            \* terminal.writeBuffer.length
    refreshing,             \* a call of _refresh is in progress
    painting,               \* the (start, end) that call was made with
    lastFrame,              \* what the last step of the renderer was
    lastBatch,              \* the queue the last painting frame consumed
    skippedInARow           \* fired frames that skipped since the last painting one

VARIABLES
    brokenBold,   \* Renderer.ts brokenBold: "null", "true" or "false"
    bufferLine,   \* the line of terminal.lines that _refresh composites
    cols,         \* terminal.cols
    x,            \* the cursor column _refresh used for the row, -1 for none
    rendered      \* what the last _refresh of the row wrote, a row per segment

VARIABLES
    terminalLines,   \* terminal.lines: the lines lines.get(0), lines.get(1), ...
    ydisp,           \* terminal.ydisp: the buffer line shown in row 0
    terminalCursor,  \* terminal.y, terminal.x and whether the cursor is shown
    pass             \* what the last call of _refresh did, NoPass for none

reflowVars == <<rowIndices, maxLength, err, lastOp, pushOnly>>

schedVars == <<refreshRowsQueue, refreshFramesSkipped, refreshAnimationFrame,
               framesPending, writeBuffer, refreshing, painting, lastFrame,
               lastBatch, skippedInARow>>

compVars == <<brokenBold, bufferLine, cols, x, rendered>>

passVars == <<terminalLines, ydisp, terminalCursor, pass>>

vars == <<reflowVars, schedVars, compVars, passVars>>

(***************************************************************************)
(* Arithmetic helpers.                                                     *)
(***************************************************************************)
Max(a, b) == IF a >= b THEN a ELSE b

Min(a, b) == IF a <= b THEN a ELSE b

\* Math.ceil(n / d) for d >= 1 and any integer n
MathCeilDiv(n, d) == IF n > 0 THEN (n + d - 1) \div d ELSE -((-n) \div d)

(***************************************************************************)
(* The scrollback buffer as changeLineLength sees it: lines.get(i) is a    *)
(* line (a sequence of cells, here the character of each cell) or          *)
(* undefined.                                                              *)
(***************************************************************************)
\* undefined, as the empty sequence (a line always holds cells)
NoLine == << >>

\* a line written at MaxCols columns: n characters, then blanks
LineOf(n) == [i \in 1..MaxCols |-> IF i <= n THEN "x" ELSE " "]

\* the lines a buffer holds: all but the last cell written
Lines == {LineOf(MaxCols - 1)}

linesGet(lines, i) == IF i \in DOMAIN lines THEN lines[i] ELSE NoLine

(***************************************************************************)
(* CircularList: a bounded sequence; push at capacity evicts the oldest.   *)
(***************************************************************************)
CircularListPush(list, cap, value) ==
    IF Len(list) = cap THEN Append(Tail(list), value) ELSE Append(list, value)

CircularListTrimStart(list, count) ==
    SubSeq(list, Min(count, Len(list)) + 1, Len(list))

CircularListPop(list) == SubSeq(list, 1, Len(list) - 1)

\* splice(start, deleteCount, ...items): deleteCount elements from position
\* start (0-based) are removed, the items put in their place, the order of the
\* other elements kept; what exceeds the capacity is dropped from the oldest end
CircularListSplice(list, cap, start, deleteCount, items) ==
    LET spliced == SubSeq(list, 1, start) \o items
                     \o SubSeq(list, start + deleteCount + 1, Len(list))
    IN IF Len(spliced) > cap
       THEN SubSeq(spliced, Len(spliced) - cap + 1, Len(spliced))
       ELSE spliced

\* shiftElements(start, count, offset): the block of count elements at start
\* is written offset positions further; the positions it leaves and does not
\* overwrite keep their element; a block moved past the end lengthens the
\* list, and what then exceeds the capacity is dropped from the oldest end
CircularListShiftElements(list, cap, start, count, offset) ==
    LET length == Max(Len(list), start + count + offset)
        shifted == [k \in 1..length |->
                      IF k - 1 >= start + offset /\ k - 1 < start + offset + count
                      THEN list[k - offset]
                      ELSE list[k]]
    IN IF length > cap THEN SubSeq(shifted, length - cap + 1, length) ELSE shifted

\* filter(cb)[0], given the positions cb holds at: the first of them, 0 if none
FilterFirst(positions) ==
    IF positions = {} THEN 0
    ELSE CHOOSE i \in positions : \A j \in positions : i <= j

(***************************************************************************)
(* LineWrap (src/unnamed/part_000).                                        *)
(***************************************************************************)
\* an entry; lineLength = << >> is the property being undefined
RowIndex(lineIndex, startIndex, endIndex) ==
    [lineIndex |-> lineIndex, startIndex |-> startIndex,
     endIndex |-> endIndex, lineLength |-> << >>]

Contains(r, index) == index >= r.startIndex /\ index <= r.endIndex

\* getRowIndex(index): position of the returned entry, 0 for undefined
getRowIndex(rows, index) ==
    FilterFirst({k \in 1..Len(rows) : Contains(rows[k], index)})

rowCount(rows) ==
    LET RECURSIVE count(_)
        count(i) == IF i > Len(rows) THEN 0
                    ELSE (rows[i].endIndex - rows[i].startIndex + 1) + count(i + 1)
    IN count(1)

\* a plausible slip: the new entry started on the last row of the entry before
pushStartAtEndIndex(rows, cap) ==
    LET lineIndex == IF Len(rows) > 0 THEN rows[Len(rows)].lineIndex + 1 ELSE 0
        startIndex == IF Len(rows) > 0 THEN rows[Len(rows)].endIndex ELSE 0
        endIndex == startIndex
    IN CircularListPush(rows, cap, RowIndex(lineIndex, startIndex, endIndex))

push(rows, cap) ==
    LET lineIndex == IF Len(rows) > 0 THEN rows[Len(rows)].lineIndex + 1 ELSE 0
        startIndex == IF Len(rows) > 0 THEN rows[Len(rows)].endIndex + 1 ELSE 0
        endIndex == startIndex
    IN CircularListPush(rows, cap, RowIndex(lineIndex, startIndex, endIndex))

\* the entries after addRowToLine(index), for an index some entry contains
addRowToLine(rows, index) ==
    LET p == getRowIndex(rows, index)
        from == rows[p].lineIndex + 1
        grown == [rows EXCEPT ![p].endIndex = @ + 1]
        \* the entry the loop's filter(...)[0] finds for lineIndex i
        Hit(k) == /\ grown[k].lineIndex >= from
                  /\ grown[k].lineIndex < Len(rows)
                  /\ FilterFirst({j \in 1..Len(grown) :
                                    grown[j].lineIndex = grown[k].lineIndex}) = k
    IN [k \in 1..Len(rows) |->
            IF Hit(k)
            THEN [grown[k] EXCEPT !.startIndex = @ + 1, !.endIndex = @ + 1]
            ELSE grown[k]]

\* the sample setLineLength records for the entry at position p
setLineLength(rows, lineIndex, length, width) ==
    LET p == FilterFirst({k \in 1..Len(rows) : rows[k].lineIndex = lineIndex})
    IN IF p = 0 THEN rows
       ELSE [rows EXCEPT ![p].lineLength =
                Append(@, ((rows[p].endIndex - rows[p].startIndex) * width) + length)]

\* relativeCharPosition(charIndex, lineIndex, width), for a row some entry
\* contains (lineStats is undefined otherwise and the call throws)
relativeCharPosition(rows, charIndex, lineIndex, width) ==
    LET lineStats == rows[getRowIndex(rows, lineIndex)]
    IN (lineIndex - lineStats.startIndex) * width + charIndex

\* the rest parameter of splice: one array holding the items passed
ItemsArray(items) == [items |-> items]

\* splice(start, deleteCount, ...items) hands the array items on as one item
splice(rows, cap, start, deleteCount, items) ==
    CircularListSplice(rows, cap, start, deleteCount, <<ItemsArray(items)>>)

shiftElements(rows, cap, start, count, offset) ==
    CircularListShiftElements(rows, cap, start, count, offset)

\* the retained entries after trimStart(count): the loop body for get(0..length-1)
trimStart(rows, count) ==
    LET kept == CircularListTrimStart(rows, count)
    IN [k \in 1..Len(kept) |->
            [kept[k] EXCEPT !.lineIndex = @ - count,
                            !.startIndex = @ - count,
                            !.endIndex = @ - count]]

\* the loop of trimStart runs to maxLength: get(i) beyond the length has no entry
trimStartFails(rows, cap, count) ==
    Len(CircularListTrimStart(rows, count)) < cap

\* a JavaScript number: <<n>> for the integer n, << >> for NaN
Number(n) == <<n>>

NaN == << >>

\* the number lineStats.lineLength (an array of samples) is coerced to by "/":
\* a one-element array to its element, a longer one ("a,b") to NaN
ToNumber(samples) == IF Len(samples) = 1 THEN Number(samples[1]) ELSE NaN

\* Math.ceil(lineLength / length) > 0 ? Math.ceil(lineLength / length) : 1
newRowCountInLine(lineLength, length) ==
    IF lineLength = NaN THEN 1
    ELSE IF MathCeilDiv(lineLength[1], length) > 0
         THEN MathCeilDiv(lineLength[1], length) ELSE 1

\* a plausible slip: the row count taken for the offset of the last row
orphanEndIndexAsCount(lineStats, startIndex) ==
    startIndex + (lineStats.endIndex - lineStats.startIndex + 1)

\* an entry without a line keeps its number of rows
orphanEndIndex(lineStats, startIndex) ==
    startIndex + (lineStats.endIndex - lineStats.startIndex)

changeLineLength(rows, lines, length, cursorPos) ==
    LET RECURSIVE loop(_, _, _)
        loop(acc, i, foundCursor) ==
            IF i > Len(rows) THEN acc
            ELSE LET lineStats == rows[i]
                     line == linesGet(lines, lineStats.lineIndex)
                     startIndex == IF i > 1 THEN acc[i - 1].endIndex + 1
                                   ELSE lineStats.startIndex
                 IN IF line # NoLine
                    THEN LET lineLength ==
                                 IF lineStats.lineLength # << >>
                                 THEN ToNumber(lineStats.lineLength)
                                 ELSE IF foundCursor THEN Number(0) ELSE Number(cursorPos)
                             rowsInLine == newRowCountInLine(lineLength, length)
                         IN loop(Append(acc, [lineStats EXCEPT
                                    !.startIndex = startIndex,
                                    !.endIndex = startIndex + rowsInLine - 1]),
                                 i + 1,
                                 foundCursor \/ lineStats.lineLength = << >>)
                    ELSE loop(Append(acc, [lineStats EXCEPT
                                    !.startIndex = startIndex,
                                    !.endIndex = orphanEndIndex(lineStats, startIndex)]),
                              i + 1, foundCursor)
    IN loop(<< >>, 1, FALSE)

(***************************************************************************)
(* The calls a terminal makes on its LineWrap.                             *)
(***************************************************************************)
\* the buffers a call of changeLineLength can read: a line or none per entry
Buffers(rows) == [{rows[k].lineIndex : k \in 1..Len(rows)} -> Lines \cup {NoLine}]

Widths == 1..MaxWidth

\* cursor columns passed to changeLineLength
Cursors == {0, MaxCols}

\* lengths passed to setLineLength
Lengths == {MaxCols}

\* setLineLength is taken while the index holds this many samples: the coercion
\* of the sample array tells apart no sample, one sample and more than one
SamplesBefore == {0, 1}

RECURSIVE samplesFrom(_, _)
samplesFrom(rows, k) ==
    IF k > Len(rows) THEN 0 ELSE Len(rows[k].lineLength) + samplesFrom(rows, k + 1)

\* the indices the model follows: an action is not taken beyond them
Bounded(rows) ==
    \A k \in 1..Len(rows) :
        /\ rows[k].lineIndex \in (0 - MaxLineIndex)..MaxLineIndex
        /\ rows[k].startIndex \in (0 - MaxRows)..MaxRows
        /\ rows[k].endIndex \in (0 - MaxRows)..MaxRows

\* an element of the index that has the fields of a RowIndex
IsRowIndex(element) == DOMAIN element = DOMAIN RowIndex(0, 0, 0)

\* push and addRowToLine read the fields of the entries: they are followed
\* while every element has them
AllRowIndex(rows) == \A k \in 1..Len(rows) : IsRowIndex(rows[k])

\* the items callers pass to splice: none, or one entry
Items == {<< >>, <<RowIndex(0, 0, 0)>>}

\* the offsets callers pass to shiftElements
Offsets == {-1, 1}

\* terminal.ybase: the buffer line at the top of the screen, one line having
\* scrolled off; the buffer then holds terminal.rows + ybase lines
ybase == 1

\* terminal.y, terminal.x, and terminal.cursorState && !terminal.cursorHidden
CursorAt(cy, cx, shown) == [y |-> cy, x |-> cx, shown |-> shown]

\* no call of _refresh made since the screen last changed
NoPass == [start |-> -1, requested |-> -1, end |-> -1, writes |-> << >>,
           emitted |-> FALSE]

\* new LineWrap(maxLength), the fields of a new Renderer and the variables of
\* its module; the terminal has drawn nothing yet: lines.get answers
\* undefined for every line, the screen shows the bottom of the buffer
Init ==
    /\ rowIndices = << >>
    /\ maxLength \in 1..MaxCapacity
    /\ err = "none"
    /\ lastOp = "constructor"
    /\ pushOnly = TRUE
    /\ refreshRowsQueue = << >>
    /\ refreshFramesSkipped = 0
    /\ refreshAnimationFrame = FALSE
    /\ framesPending = 0
    /\ writeBuffer = 0
    /\ refreshing = FALSE
    /\ painting = [start |-> -1, end |-> -1]
    /\ lastFrame = "constructor"
    /\ lastBatch = << >>
    /\ skippedInARow = 0
    /\ brokenBold = "null"
    /\ bufferLine = NoLine
    /\ cols = 1
    /\ x = -1
    /\ rendered = << >>
    /\ terminalLines = [row \in 1..(TerminalRows + ybase) |-> NoLine]
    /\ ydisp = ybase
    /\ terminalCursor = CursorAt(0, 0, TRUE)
    /\ pass = NoPass

Push ==
    /\ AllRowIndex(rowIndices)
    /\ rowIndices' = push(rowIndices, maxLength)
    /\ Bounded(rowIndices')
    /\ err' = "none"
    /\ lastOp' = "push"
    /\ UNCHANGED <<maxLength, pushOnly, schedVars, compVars, passVars>>

Pop ==
    /\ Len(rowIndices) > 0
    /\ rowIndices' = CircularListPop(rowIndices)
    /\ err' = "none"
    /\ lastOp' = "pop"
    /\ pushOnly' = FALSE
    /\ UNCHANGED <<maxLength, schedVars, compVars, passVars>>

TrimStart ==
    \E count \in 1..Max(1, Len(rowIndices)) :
        /\ count <= Len(rowIndices)
        /\ rowIndices' = trimStart(rowIndices, count)
        /\ Bounded(rowIndices')
        /\ err' = IF trimStartFails(rowIndices, maxLength, count)
                  THEN "IndexOutOfRange" ELSE "none"
        /\ lastOp' = "trimStart"
        /\ pushOnly' = FALSE
        /\ UNCHANGED <<maxLength, schedVars, compVars, passVars>>

SetLineLength ==
    \E k \in 1..Len(rowIndices), length \in Lengths, width \in Widths :
        /\ samplesFrom(rowIndices, 1) \in SamplesBefore
        /\ rowIndices' = setLineLength(rowIndices, rowIndices[k].lineIndex, length, width)
        /\ err' = "none"
        /\ lastOp' = "setLineLength"
        /\ pushOnly' = FALSE
        /\ UNCHANGED <<maxLength, schedVars, compVars, passVars>>

AddRowToLine ==
    \E index \in 0..MaxRows :
        /\ AllRowIndex(rowIndices)
        /\ IF getRowIndex(rowIndices, index) = 0
           THEN /\ err' = "TypeError"
                /\ UNCHANGED rowIndices
           ELSE /\ err' = "none"
                /\ rowIndices' = addRowToLine(rowIndices, index)
        /\ Bounded(rowIndices')
        /\ lastOp' = "addRowToLine"
        /\ pushOnly' = FALSE
        /\ UNCHANGED <<maxLength, schedVars, compVars, passVars>>

ChangeLineLength ==
    \E lines \in Buffers(rowIndices), length \in Widths, cursorPos \in Cursors :
        /\ rowIndices' = changeLineLength(rowIndices, lines, length, cursorPos)
        /\ Bounded(rowIndices')
        /\ err' = "none"
        /\ lastOp' = "changeLineLength"
        /\ pushOnly' = FALSE
        /\ UNCHANGED <<maxLength, schedVars, compVars, passVars>>

Splice ==
    \E start \in 0..Len(rowIndices), deleteCount \in 0..1, items \in Items :
        /\ start + deleteCount <= Len(rowIndices)
        /\ rowIndices' = splice(rowIndices, maxLength, start, deleteCount, items)
        /\ err' = "none"
        /\ lastOp' = "splice"
        /\ pushOnly' = FALSE
        /\ UNCHANGED <<maxLength, schedVars, compVars, passVars>>

ShiftElements ==
    \E start \in 0..(Len(rowIndices) - 1), count \in 1..Len(rowIndices),
       offset \in Offsets :
        /\ start + count <= Len(rowIndices)
        /\ start + offset >= 0
        /\ rowIndices' = shiftElements(rowIndices, maxLength, start, count, offset)
        /\ err' = "none"
        /\ lastOp' = "shiftElements"
        /\ pushOnly' = FALSE
        /\ UNCHANGED <<maxLength, schedVars, compVars, passVars>>

ReflowNext ==
    \/ Push
    \/ Pop
    \/ TrimStart
    \/ SetLineLength
    \/ AddRowToLine
    \/ ChangeLineLength

\* the calls a scroll-region edit of the scrollback buffer repeats on the index
EditNext ==
    \/ Push
    \/ AddRowToLine
    \/ Splice
    \/ ShiftElements

(***************************************************************************)
(* Renderer: queueRefresh and the frame callback _refreshLoop              *)
(* (src/src/Renderer.ts).                                                  *)
(***************************************************************************)
Range(start, end) == [start |-> start, end |-> end]

NoRange == Range(-1, -1)

\* the ranges callers queue
Ranges == {Range(0, 0), Range(1, 1), Range(0, 1)}

RECURSIVE minStart(_)
minStart(queue) ==
    IF Len(queue) = 1 THEN queue[1].start
    ELSE LET start == minStart(SubSeq(queue, 1, Len(queue) - 1))
         IN IF queue[Len(queue)].start < start THEN queue[Len(queue)].start ELSE start

RECURSIVE maxEnd(_)
maxEnd(queue) ==
    IF Len(queue) = 1 THEN queue[1].end
    ELSE LET end == maxEnd(SubSeq(queue, 1, Len(queue) - 1))
         IN IF queue[Len(queue)].end > end THEN queue[Len(queue)].end ELSE end

\* a plausible slip: the full refresh taken from 6 queued ranges on
mergedRangeFullFromSix(queue, rows) ==
    IF Len(queue) > 5 THEN Range(0, rows - 1)
    ELSE Range(minStart(queue), maxEnd(queue))

\* the range _refreshLoop hands to _refresh, for a non-empty queue
mergedRange(queue, rows) ==
    IF Len(queue) > 4 THEN Range(0, rows - 1)
    ELSE Range(minStart(queue), maxEnd(queue))

\* writeBuffer.length > 0 && this._refreshFramesSkipped++ <= MAX_REFRESH_FRAME_SKIP
skipFrame(backlog, skipped) == backlog > 0 /\ skipped <= MAX_REFRESH_FRAME_SKIP

\* the counter after the test: "++" runs only when the left operand holds
skippedAfterTest(backlog, skipped) == IF backlog > 0 THEN skipped + 1 ELSE skipped

\* a plausible slip: a frame requested on every call
QueueRefreshAlwaysArms(range) ==
    /\ Len(refreshRowsQueue) < MaxQueue
    /\ refreshRowsQueue' = Append(refreshRowsQueue, range)
    /\ refreshAnimationFrame' = TRUE
    /\ framesPending' = framesPending + 1
    /\ lastFrame' = "queueRefresh"
    /\ lastBatch' = << >>
    /\ UNCHANGED <<refreshFramesSkipped, writeBuffer, refreshing, painting,
                   skippedInARow, reflowVars, compVars, passVars>>

\* a plausible slip: a request made during a refresh taken as covered by it
QueueRefreshDroppedWhileRefreshing(range) ==
    /\ Len(refreshRowsQueue) < MaxQueue
    /\ IF refreshing
       THEN UNCHANGED <<refreshRowsQueue, refreshAnimationFrame, framesPending>>
       ELSE /\ refreshRowsQueue' = Append(refreshRowsQueue, range)
            /\ refreshAnimationFrame' = TRUE
            /\ framesPending' = IF refreshAnimationFrame THEN framesPending
                                ELSE framesPending + 1
    /\ lastFrame' = "queueRefresh"
    /\ lastBatch' = << >>
    /\ UNCHANGED <<refreshFramesSkipped, writeBuffer, refreshing, painting,
                   skippedInARow, reflowVars, compVars, passVars>>

QueueRefresh(range) ==
    /\ Len(refreshRowsQueue) < MaxQueue
    /\ refreshRowsQueue' = Append(refreshRowsQueue, range)
    /\ IF ~refreshAnimationFrame
       THEN /\ refreshAnimationFrame' = TRUE
            /\ framesPending' = framesPending + 1
       ELSE UNCHANGED <<refreshAnimationFrame, framesPending>>
    /\ lastFrame' = "queueRefresh"
    /\ lastBatch' = << >>
    /\ UNCHANGED <<refreshFramesSkipped, writeBuffer, refreshing, painting,
                   skippedInARow, reflowVars, compVars, passVars>>

\* a plausible slip: a skipped frame that does not request the next one
RefreshLoopSkipWithoutRearm ==
    /\ framesPending > 0
    /\ ~refreshing
    /\ skipFrame(writeBuffer, refreshFramesSkipped)
    /\ refreshFramesSkipped' = skippedAfterTest(writeBuffer, refreshFramesSkipped)
    /\ refreshAnimationFrame' = FALSE
    /\ framesPending' = framesPending - 1
    /\ lastFrame' = "skip"
    /\ lastBatch' = << >>
    /\ skippedInARow' = skippedInARow + 1
    /\ UNCHANGED <<refreshRowsQueue, writeBuffer, refreshing, painting, reflowVars, compVars, passVars>>

\* the frame callback runs and skips the frame
RefreshLoopSkip ==
    /\ framesPending > 0
    /\ ~refreshing
    /\ skipFrame(writeBuffer, refreshFramesSkipped)
    /\ refreshFramesSkipped' = skippedAfterTest(writeBuffer, refreshFramesSkipped)
    /\ refreshAnimationFrame' = TRUE
    /\ framesPending' = (framesPending - 1) + 1
    /\ lastFrame' = "skip"
    /\ lastBatch' = << >>
    /\ skippedInARow' = skippedInARow + 1
    /\ UNCHANGED <<refreshRowsQueue, writeBuffer, refreshing, painting, reflowVars, compVars, passVars>>

\* a plausible slip: the frame handle kept after the queue is taken
RefreshLoopPaintKeepsHandle ==
    /\ framesPending > 0
    /\ ~refreshing
    /\ ~skipFrame(writeBuffer, refreshFramesSkipped)
    /\ refreshFramesSkipped' = 0
    /\ skippedInARow' = 0
    /\ IF Len(refreshRowsQueue) = 0
       THEN /\ framesPending' = framesPending - 1
            /\ lastFrame' = "TypeError"
            /\ lastBatch' = << >>
            /\ UNCHANGED <<refreshRowsQueue, refreshAnimationFrame, refreshing, painting>>
       ELSE /\ painting' = mergedRange(refreshRowsQueue, TerminalRows)
            /\ refreshRowsQueue' = << >>
            /\ refreshAnimationFrame' = TRUE
            /\ framesPending' = framesPending - 1
            /\ refreshing' = TRUE
            /\ lastFrame' = "paint"
            /\ lastBatch' = refreshRowsQueue
    /\ UNCHANGED <<writeBuffer, reflowVars, compVars, passVars>>

\* the frame callback runs and paints
RefreshLoopPaint ==
    /\ framesPending > 0
    /\ ~refreshing
    /\ ~skipFrame(writeBuffer, refreshFramesSkipped)
    /\ refreshFramesSkipped' = 0
    /\ skippedInARow' = 0
    /\ IF Len(refreshRowsQueue) = 0
       THEN \* _refreshRowsQueue[0].start throws: nothing after it runs
            /\ framesPending' = framesPending - 1
            /\ lastFrame' = "TypeError"
            /\ lastBatch' = << >>
            /\ UNCHANGED <<refreshRowsQueue, refreshAnimationFrame, refreshing, painting>>
       ELSE /\ painting' = mergedRange(refreshRowsQueue, TerminalRows)
            /\ refreshRowsQueue' = << >>
            /\ refreshAnimationFrame' = FALSE
            /\ framesPending' = framesPending - 1
            /\ refreshing' = TRUE
            /\ lastFrame' = "paint"
            /\ lastBatch' = refreshRowsQueue
    /\ UNCHANGED <<writeBuffer, reflowVars, compVars, passVars>>

\* _refresh returns
RefreshDone ==
    /\ refreshing
    /\ refreshing' = FALSE
    /\ painting' = NoRange
    /\ lastFrame' = "refreshed"
    /\ lastBatch' = << >>
    /\ UNCHANGED <<refreshRowsQueue, refreshFramesSkipped, refreshAnimationFrame,
                   framesPending, writeBuffer, skippedInARow, reflowVars, compVars, passVars>>

\* the terminal receives data, or has written all of it
WriteBufferChange ==
    /\ ~refreshing
    /\ writeBuffer' = 1 - writeBuffer
    /\ lastFrame' = "write"
    /\ lastBatch' = << >>
    /\ UNCHANGED <<refreshRowsQueue, refreshFramesSkipped, refreshAnimationFrame,
                   framesPending, refreshing, painting, skippedInARow, reflowVars, compVars, passVars>>

\* the renderer of a terminal whose reflow index has capacity 1
InitSched == Init /\ maxLength = 1

SchedNext ==
    \/ \E range \in Ranges : QueueRefresh(range)
    \/ RefreshLoopSkip
    \/ RefreshLoopPaint
    \/ RefreshDone
    \/ WriteBufferChange

(***************************************************************************)
(* Renderer._refresh: the compositing of one row of the buffer into rows   *)
(* of styled runs (src/src/Renderer.ts).                                   *)
(***************************************************************************)
\* enum FLAGS
BOLD == 1

UNDERLINE == 2

BLINK == 4

INVERSE == 8

INVISIBLE == 16

\* flags & flag, for a flag of one bit
HasFlag(flags, flag) == (flags \div flag) % 2 = 1

\* the attribute word decoded by data & 0x1ff, (data >> 9) & 0x1ff, data >> 18
AttrWord(flags, fg, bg) == (flags * 262144) + (fg * 512) + bg

\* terminal.defAttr: no flags, foreground 257, background 256
defAttr == AttrWord(0, 257, 256)

\* a cell of a line: line[i][0], line[i][1], line[i][2]
Cell(attr, ch, width) == [attr |-> attr, ch |-> ch, width |-> width]

\* !brokenBold
Falsy(broken) == broken \in {"null", "false"}

\* Strips trailing whitespace from the row, down to a minimum length
\* a plausible slip: the index of the last kept cell taken for the length
trimBlankIndexAsLength(row, min, blank) ==
    LET RECURSIVE last(_)
        last(i) ==
            IF i < 0 THEN -1
            ELSE IF i >= min
                 THEN IF row[i + 1].ch # " " THEN i ELSE last(i - 1)
                 ELSE IF row[i + 1].ch # " " \/ row[i + 1].attr # blank
                      THEN i ELSE last(i - 1)
        i == last(Len(row) - 1)
        end == IF i < min THEN min ELSE i
    IN SubSeq(row, 1, Min(end, Len(row)))

\* a plausible slip: only default blanks stripped beyond the minimum as well
trimBlankDefaultOnly(row, min, blank) ==
    LET RECURSIVE last(_)
        last(i) ==
            IF i < 0 THEN -1
            ELSE IF row[i + 1].ch # " " \/ row[i + 1].attr # blank
                 THEN i ELSE last(i - 1)
        i == last(Len(row) - 1)
        end == IF i < min THEN min ELSE i + 2
    IN SubSeq(row, 1, Min(end, Len(row)))

trimBlank(row, min, blank) ==
    LET RECURSIVE last(_)
        \* the (0-based) i the loop ends with: where it breaks, -1 if it does not
        last(i) ==
            IF i < 0 THEN -1
            ELSE IF i >= min
                 THEN IF row[i + 1].ch # " " THEN i ELSE last(i - 1)
                 ELSE IF row[i + 1].ch # " " \/ row[i + 1].attr # blank
                      THEN i ELSE last(i - 1)
        i == last(Len(row) - 1)
        end == IF i < min THEN min ELSE i + 2
    IN SubSeq(row, 1, Min(end, Len(row)))

chunkArray(array, chunkSize) ==
    [k \in 1..MathCeilDiv(Len(array), chunkSize) |->
        SubSeq(array, ((k - 1) * chunkSize) + 1, Min(k * chunkSize, Len(array)))]

\* the rows _refresh composites for a row of the buffer: the row itself, or
\* its chunks when it has more cells than the terminal has columns
overflowBuffer(row, width) ==
    IF Len(row) > width THEN chunkArray(trimBlank(row, width, defAttr), width)
    ELSE <<row>>

\* what a <span> is opened with; a colour class is pushed for an index < 256
Span(cursor, classNames, bg, fg) ==
    [cursor |-> cursor, classNames |-> classNames,
     bgColor |-> IF bg < 256 THEN <<bg>> ELSE << >>,
     fgColor |-> IF fg < 256 THEN <<fg>> ELSE << >>]

NoSpan == Span(FALSE, << >>, 256, 256)

\* a plausible slip: the bright colour tied to the bold style
boldColorOnlyWhenStyled(flags, fg, broken) ==
    [classNames |-> IF HasFlag(flags, BOLD) /\ Falsy(broken)
                    THEN <<"xterm-bold">> ELSE << >>,
     fg |-> IF HasFlag(flags, BOLD) /\ Falsy(broken) /\ fg < 8 THEN fg + 8 ELSE fg]

\* if (flags & FLAGS.BOLD) { if (!brokenBold) push 'xterm-bold'; if (fg < 8) fg += 8 }
bold(flags, fg, broken) ==
    [classNames |-> IF HasFlag(flags, BOLD) /\ Falsy(broken)
                    THEN <<"xterm-bold">> ELSE << >>,
     fg |-> IF HasFlag(flags, BOLD) /\ fg < 8 THEN fg + 8 ELSE fg]

\* if (flags & FLAGS.INVERSE) { swap bg and fg; if ((flags & 1) && fg < 8) fg += 8 }
inverse(flags, bg, fg) ==
    IF HasFlag(flags, INVERSE)
    THEN [bg |-> fg, fg |-> IF HasFlag(flags, 1) /\ bg < 8 THEN bg + 8 ELSE bg]
    ELSE [bg |-> bg, fg |-> fg]

\* a plausible slip: the two sentinels exchanged
pinExchanged(flags, bg, fg) ==
    IF HasFlag(flags, INVERSE)
    THEN [bg |-> IF bg = 256 THEN 15 ELSE bg, fg |-> IF fg = 257 THEN 0 ELSE fg]
    ELSE [bg |-> bg, fg |-> fg]

\* if (flags & FLAGS.INVERSE) { if (bg === 257) bg = 15; if (fg === 256) fg = 0 }
pin(flags, bg, fg) ==
    IF HasFlag(flags, INVERSE)
    THEN [bg |-> IF bg = 257 THEN 15 ELSE bg, fg |-> IF fg = 256 THEN 0 ELSE fg]
    ELSE [bg |-> bg, fg |-> fg]

\* the span opened for the attribute word data (not the default, not the cursor)
openSpan(data, broken) ==
    LET bg == data % 512
        fg == (data \div 512) % 512
        flags == data \div 262144
        bolded == bold(flags, fg, broken)
        swapped == inverse(flags, bg, bolded.fg)
        pinned == pin(flags, swapped.bg, swapped.fg)
        classNames ==
            bolded.classNames
            \o (IF HasFlag(flags, UNDERLINE) THEN <<"xterm-underline">> ELSE << >>)
            \o (IF HasFlag(flags, BLINK) THEN <<"xterm-blink">> ELSE << >>)
            \o (IF HasFlag(flags, INVISIBLE) THEN <<"xterm-hidden">> ELSE << >>)
    IN Span(FALSE, classNames, pinned.bg, pinned.fg)

\* <span class="reverse-video terminal-cursor">
cursorSpan == Span(TRUE, <<"reverse-video", "terminal-cursor">>, 256, 256)

\* what _refresh appends to out, with the column it is appended at
OpenEvent(i, span) == [kind |-> "open", at |-> i, span |-> span, text |-> ""]

CloseEvent(i) == [kind |-> "close", at |-> i, span |-> NoSpan, text |-> ""]

\* the character of a cell, escaped, inside a wide-char span when of width 2
CharEvent(i, ch, ch_width) ==
    [kind |-> "char", at |-> i,
     span |-> IF ch_width = 2 THEN Span(FALSE, <<"xterm-wide-char">>, 256, 256)
              ELSE NoSpan,
     text |-> IF ch = "&" THEN "&amp;"
              ELSE IF ch = "<" THEN "&lt;"
              ELSE IF ch = ">" THEN "&gt;"
              ELSE IF ch \in {"", " "} THEN "&nbsp;"
              ELSE ch]

\* a plausible slip: the test for an open run forgotten
closesRunOnEveryChange(attr, data) == data # attr

\* if (data !== attr) { if (attr !== defAttr) out += '</span>'
closesRun(attr, data) == data # attr /\ attr # defAttr

\* if (data !== attr) { ... if (data !== defAttr) { open a span
opensRun(attr, data) == data # attr /\ data # defAttr

\* out for one row: the scan of the columns 0..width-1 and the closing of the
\* run left open
compositeRow(row, width, cursor, broken) ==
    LET RECURSIVE scan(_, _, _)
        scan(i, attr, out) ==
            IF i >= width
            THEN IF attr # defAttr THEN Append(out, CloseEvent(i)) ELSE out
            ELSE LET present == i + 1 <= Len(row)
                     ch == IF present THEN row[i + 1].ch ELSE " "
                     ch_width == IF present THEN row[i + 1].width ELSE 1
                     data == IF i = cursor THEN -1
                             ELSE IF present THEN row[i + 1].attr ELSE defAttr
                 IN IF ch_width = 0 THEN scan(i + 1, attr, out)
                    ELSE scan(i + 1, data,
                              out
                              \o (IF closesRun(attr, data)
                                  THEN <<CloseEvent(i)>> ELSE << >>)
                              \o (IF opensRun(attr, data)
                                  THEN <<OpenEvent(i, IF data = -1 THEN cursorSpan
                                                      ELSE openSpan(data, broken))>>
                                  ELSE << >>)
                              \o <<CharEvent(i, ch, ch_width)>>)
    IN scan(0, defAttr, << >>)

(***************************************************************************)
(* What the terminal and the host do to the row and the renderer.          *)
(***************************************************************************)
\* palette indices: the 16 colours that have a bright twin or are one, the end
\* of the 256-colour map, and the indices around the two sentinels
Palette == (0..9) \cup {15, 255, 256, 257, 258, 511}

\* the attribute words the terminal stores
Words == {AttrWord(flags, fg, bg) : flags \in 0..31, fg \in Palette, bg \in Palette}

\* bold red on the default background; the default colours inversed
BoldRed == AttrWord(BOLD, 1, 256)

InverseDefault == AttrWord(INVERSE, 257, 256)

\* the cells the terminal writes: characters, blanks (plain and coloured) and
\* the trailing half of a wide character
Cells ==
    {Cell(attr, "x", 1) : attr \in {defAttr, BoldRed, InverseDefault}}
    \cup {Cell(attr, " ", 1) : attr \in {defAttr, BoldRed}}
    \cup {Cell(defAttr, "", 0)}

\* the constructor's probe of the host: does bold change the width of a glyph
Constructor ==
    /\ brokenBold = "null"
    /\ \E checkBoldBroken \in {"true", "false"} : brokenBold' = checkBoldBroken
    /\ UNCHANGED <<bufferLine, cols, x, rendered, reflowVars, schedVars, passVars>>

\* the terminal writes a cell at the end of the row
Write ==
    \E cell \in Cells :
        /\ Len(bufferLine) < MaxCells
        /\ bufferLine' = Append(bufferLine, cell)
        /\ x' = -1
        /\ rendered' = << >>
        /\ UNCHANGED <<brokenBold, cols, reflowVars, schedVars, passVars>>

\* the terminal writes a row of one character with an attribute word (the
\* row is followed from its first writing)
WriteStyled ==
    /\ bufferLine = NoLine
    /\ \E data \in Words : bufferLine' = <<Cell(data, "x", 1)>>
    /\ x' = -1
    /\ rendered' = << >>
    /\ UNCHANGED <<brokenBold, cols, reflowVars, schedVars, passVars>>

\* the terminal is resized: rows written before keep their cells
Resize ==
    \E width \in 1..MaxCols :
        /\ width # cols
        /\ cols' = width
        /\ x' = -1
        /\ rendered' = << >>
        /\ pass' = NoPass
        /\ UNCHANGED <<brokenBold, bufferLine, terminalLines, ydisp, terminalCursor,
                       reflowVars, schedVars>>

\* _refresh reaches the row: it composites the row, or each of its chunks,
\* with the cursor in column cursor if this is the cursor's row (-1 if not)
RefreshRow ==
    \E cursor \in -1..(cols - 1) :
        /\ brokenBold # "null"
        /\ bufferLine # NoLine
        /\ x' = cursor
        /\ rendered' = LET rows == overflowBuffer(bufferLine, cols)
                       IN [s \in 1..Len(rows) |->
                              compositeRow(rows[s], cols, cursor, brokenBold)]
        /\ UNCHANGED <<brokenBold, bufferLine, cols, reflowVars, schedVars, passVars>>

\* the compositor does not read the reflow index: its rows are followed
\* beside an index of one capacity
InitComposite == Init /\ maxLength = 1

\* a row is written cell by cell, the terminal resized, the row refreshed
CompositeNext ==
    \/ Constructor
    \/ Write
    \/ Resize
    \/ RefreshRow

\* rows of one styled character are written and refreshed
AttrNext ==
    \/ Constructor
    \/ WriteStyled
    \/ RefreshRow

(***************************************************************************)
(* Renderer._refresh: the pass over the rows end, end - 1, ..., start of   *)
(* the screen (src/src/Renderer.ts:177-216, 224-230, 360-368).             *)
(***************************************************************************)
\* this._terminal.children[y]: one element for each row of the terminal
hasChild(y, rows) == y \in 0..(rows - 1)

\* the column of the cursor override for the rows read at y, -1 for none
cursorColumn(cursor, y, yb, yd) ==
    IF cursor.y = y - (yb - yd) /\ cursor.shown THEN cursor.x ELSE -1

\* a plausible slip: the row written taken from the line read
rowWrittenAtY(end, renderCount, y) == y

\* this._terminal.children[end + 1 - renderCount].innerHTML = out
rowWritten(end, renderCount, y) == (end + 1) - renderCount

\* one row written: the row, the y read, the cursor column used, and out
RowWrite(row, y, cursor, out) == [row |-> row, y |-> y, cursor |-> cursor, out |-> out]

\* _refresh(start, end) on a terminal of the given rows and width
refresh(start, end, rows, width, lines, yd, yb, cursor, broken) ==
    LET clamped == IF end >= rows THEN rows - 1 ELSE end
        rowsToRender == clamped - start
        RECURSIVE rowLoop(_, _, _, _)
        rowLoop(y0, overflow0, renderCount, writes) ==
            IF ~(renderCount <= rowsToRender)
            THEN [writes |-> writes, emitted |-> TRUE]
            ELSE LET popped == Len(overflow0) > 0
                     y == IF popped THEN y0 ELSE y0 - 1
                     line == IF popped THEN overflow0[Len(overflow0)]
                             ELSE linesGet(lines, (y + yd) + 1)
                     overflow == IF popped
                                 THEN SubSeq(overflow0, 1, Len(overflow0) - 1)
                                 ELSE << >>
                 IN IF line = NoLine \/ ~hasChild(y, rows)
                    THEN rowLoop(y, overflow, renderCount + 1, writes)
                    ELSE LET chunks == overflowBuffer(line, width)
                         IN IF Len(chunks) = 0
                            THEN [writes |-> writes, emitted |-> FALSE]
                            ELSE LET column == cursorColumn(cursor, y, yb, yd)
                                     out == compositeRow(chunks[Len(chunks)], width,
                                                         column, broken)
                                 IN rowLoop(y,
                                            IF Len(line) > width
                                            THEN SubSeq(chunks, 1, Len(chunks) - 1)
                                            ELSE overflow,
                                            renderCount + 1,
                                            Append(writes,
                                                   RowWrite(rowWritten(clamped, renderCount + 1, y),
                                                            y, column, out)))
        done == rowLoop(end + 1, << >>, 0, << >>)
    IN [start |-> start, requested |-> end, end |-> clamped,
        writes |-> done.writes, emitted |-> done.emitted]

\* a line written when the terminal had MaxCols columns
WrittenLine == [i \in 1..MaxCols |-> Cell(defAttr, "x", 1)]

\* where the cursor is: a row of the screen, column 0 or 1, shown or hidden
CursorStates ==
    {CursorAt(cy, cx, TRUE) : cy \in 0..(TerminalRows - 1), cx \in 0..1}
    \cup {CursorAt(0, 0, FALSE)}

\* the terminal writes a line of the buffer, or a resize takes it away
LinesSet ==
    \E row \in 1..(TerminalRows + ybase) :
        /\ brokenBold # "null"
        /\ terminalLines' = [terminalLines EXCEPT
                                ![row] = IF @ = NoLine THEN WrittenLine ELSE NoLine]
        /\ pass' = NoPass
        /\ UNCHANGED <<ydisp, terminalCursor, compVars, reflowVars, schedVars>>

\* the user scrolls the screen back, or to the bottom again
ScrollDisp ==
    /\ brokenBold # "null"
    /\ ydisp' = IF ydisp = ybase THEN ybase - 1 ELSE ybase
    /\ pass' = NoPass
    /\ UNCHANGED <<terminalLines, terminalCursor, compVars, reflowVars, schedVars>>

\* the cursor moves, blinks or is hidden
CursorMove ==
    \E cursor \in CursorStates :
        /\ brokenBold # "null"
        /\ cursor # terminalCursor
        /\ terminalCursor' = cursor
        /\ pass' = NoPass
        /\ UNCHANGED <<terminalLines, ydisp, compVars, reflowVars, schedVars>>

\* _refresh(start, end) is called, for 0 <= start <= end
Refresh ==
    \E start \in 0..TerminalRows : \E end \in start..TerminalRows :
        /\ brokenBold # "null"
        /\ pass' = refresh(start, end, TerminalRows, cols, terminalLines, ydisp, ybase,
                           terminalCursor, brokenBold)
        /\ UNCHANGED <<terminalLines, ydisp, terminalCursor, compVars, reflowVars,
                       schedVars>>

\* the pass does not read the reflow index
InitRefresh == Init /\ maxLength = 1

\* lines are written and lost, the terminal resized and scrolled, the cursor
\* moved, and ranges of rows refreshed
RefreshNext ==
    \/ Constructor
    \/ LinesSet
    \/ Resize
    \/ ScrollDisp
    \/ CursorMove
    \/ Refresh

(***************************************************************************)
(* Properties of the reflow index.                                         *)
(***************************************************************************)
\* the entries, in order, partition [0, rowCount): the first starts at row 0,
\* no entry ends before it starts, each starts right after the one before
Adjacent(rows) ==
    \A k \in 1..(Len(rows) - 1) : rows[k + 1].startIndex = rows[k].endIndex + 1

Partition(rows) ==
    /\ Len(rows) > 0 => rows[1].startIndex = 0
    /\ \A k \in 1..Len(rows) : rows[k].endIndex >= rows[k].startIndex
    /\ Adjacent(rows)

\* C1: after changeLineLength(buffer, width) the entries, taken in order,
\* partition [0, rowCount): the first startIndex is 0, every endIndex >= its
\* startIndex and startIndex(i+1) = endIndex(i) + 1.
C1_PartitionAfterChangeLineLength ==
    lastOp = "changeLineLength" => Partition(rowIndices)

\* C2: changeLineLength is idempotent: from any reachable state, a second call
\* with the same buffer, width and cursor position leaves every entry (lineIndex,
\* startIndex, endIndex, cached length) as the first call left it.
C2_ChangeLineLengthIdempotent ==
    \A lines \in Buffers(rowIndices), length \in Widths, cursorPos \in Cursors :
        LET once == changeLineLength(rowIndices, lines, length, cursorPos)
        IN changeLineLength(once, lines, length, cursorPos) = once

\* C2 (witness): a reflow has just run on two entries, one of them cached, one
\* of them without a line, and another reflow of the same index would change it
C2_Witness ==
    /\ lastOp = "changeLineLength"
    /\ Len(rowIndices) = 2
    /\ rowIndices[1].lineLength # << >>
    /\ rowIndices[1].endIndex > rowIndices[1].startIndex
    /\ \E lines \in Buffers(rowIndices), length \in Widths, cursorPos \in Cursors :
          /\ linesGet(lines, rowIndices[2].lineIndex) = NoLine
          /\ changeLineLength(rowIndices, lines, length, cursorPos) # rowIndices

\* the significant length C3 speaks of: the cached length if one was recorded,
\* otherwise the live content length with trailing blanks stripped
StrippedLength(line) ==
    IF \A i \in 1..Len(line) : line[i] = " " THEN 0
    ELSE CHOOSE n \in 1..Len(line) :
            line[n] # " " /\ \A i \in (n + 1)..Len(line) : line[i] = " "

SignificantLength(entry, line) ==
    IF entry.lineLength # << >> THEN entry.lineLength[Len(entry.lineLength)]
    ELSE StrippedLength(line)

RECURSIVE ExpectedRowCount(_, _, _, _)
ExpectedRowCount(rows, lines, width, k) ==
    IF k > Len(rows) THEN 0
    ELSE LET length == SignificantLength(rows[k], linesGet(lines, rows[k].lineIndex))
         IN MathCeilDiv(Max(length, 1), width)
            + ExpectedRowCount(rows, lines, width, k + 1)

\* C3: after changeLineLength(buffer, width), rowCount is the sum over the
\* retained lines of ceil(max(length, 1) / width), length being the cached
\* length if recorded, otherwise the stripped live content length (stated for
\* the buffers that hold a line for every retained entry).
C3_RowCountIsSumOfCeilings ==
    \A lines \in Buffers(rowIndices), length \in Widths, cursorPos \in Cursors :
        (\A k \in 1..Len(rowIndices) : linesGet(lines, rowIndices[k].lineIndex) # NoLine)
        => rowCount(changeLineLength(rowIndices, lines, length, cursorPos))
             = ExpectedRowCount(rowIndices, lines, length, 1)

\* C4: getRowIndex(r) returns an entry whose span contains r for every r in
\* [0, rowCount), and no entry for every r outside [0, rowCount).
C4_GetRowIndexCoversRowCount ==
    \A r \in (0 - MaxRows - 1)..(MaxRows + 1) :
        LET p == getRowIndex(rowIndices, r)
        IN IF r >= 0 /\ r < rowCount(rowIndices)
           THEN p # 0 /\ Contains(rowIndices[p], r)
           ELSE p = 0

\* C9: after any sequence of pushes, evicting ones included, the retained
\* entries are adjacent and partition [0, rowCount), the oldest at row 0.
C9_PartitionAfterPushes ==
    pushOnly => Partition(rowIndices)

\* C10: for a row r covered by entry e, addRowToLine(r) adds 1 to e.endIndex,
\* leaves e.startIndex and every entry before e unchanged, adds 1 to startIndex
\* and endIndex of every entry after e; rowCount grows by exactly 1.
C10_AddRowShiftsLaterEntries ==
    \A r \in 0..MaxRows :
        LET p == getRowIndex(rowIndices, r)
            after == addRowToLine(rowIndices, r)
        IN p # 0 =>
            /\ after[p] = [rowIndices[p] EXCEPT !.endIndex = @ + 1]
            /\ \A k \in 1..(p - 1) : after[k] = rowIndices[k]
            /\ \A k \in (p + 1)..Len(rowIndices) :
                  after[k] = [rowIndices[k] EXCEPT !.startIndex = @ + 1,
                                                  !.endIndex = @ + 1]
            /\ rowCount(after) = rowCount(rowIndices) + 1

\* C11: trimStart(count), for a count not above the current length, completes
\* without failure and leaves entries that partition [0, rowCount), the oldest
\* remaining entry starting at row 0; also when the trimmed lines had more than
\* one row each and when the index holds fewer entries than its capacity.
C11_TrimStartKeepsPartition ==
    lastOp = "trimStart" => err = "none" /\ Partition(rowIndices)

\* the sample changeLineLength is to use: the latest one recorded
LatestSample(entry) == entry.lineLength[Len(entry.lineLength)]

\* C12: a line with one or more recorded samples gets exactly
\* max(1, ceil(L / w)) rows from the next changeLineLength(buffer, w), L being
\* the latest recorded sample, whatever the number of samples recorded.
C12_RecordedLengthDecidesRows ==
    \A lines \in Buffers(rowIndices), length \in Widths, cursorPos \in Cursors :
        LET after == changeLineLength(rowIndices, lines, length, cursorPos)
        IN \A k \in 1..Len(rowIndices) :
            (/\ rowIndices[k].lineLength # << >>
             /\ linesGet(lines, rowIndices[k].lineIndex) # NoLine)
            => after[k].endIndex - after[k].startIndex + 1
                 = Max(1, MathCeilDiv(LatestSample(rowIndices[k]), length))

\* the entry push is to append to the entries rows
NewEntry(rows) ==
    IF Len(rows) = 0 THEN RowIndex(0, 0, 0)
    ELSE RowIndex(rows[Len(rows)].lineIndex + 1,
                  rows[Len(rows)].endIndex + 1,
                  rows[Len(rows)].endIndex + 1)

\* C13 (as stated): push appends exactly one entry and changes no existing
\* entry; the new entry has lineIndex = the last lineIndex + 1 (0 if empty),
\* startIndex = the last endIndex + 1 (0 if empty) and endIndex = startIndex.
C13_PushAppendsOneEntry ==
    push(rowIndices, maxLength) = Append(rowIndices, NewEntry(rowIndices))

\* C13 (amended): push appends exactly one entry with these fields, drops the
\* oldest entry when the index is at capacity, and changes no other entry.
C13_PushAppendsAndEvictsAtCapacity ==
    LET kept == IF Len(rowIndices) = maxLength THEN Tail(rowIndices) ELSE rowIndices
    IN push(rowIndices, maxLength) = Append(kept, NewEntry(rowIndices))

\* C13 (witness): a push at capacity has dropped the entry of line 0 and
\* appended the entry of line 2 after a line of two rows
C13_Witness ==
    /\ lastOp = "push"
    /\ maxLength = 2
    /\ Len(rowIndices) = 2
    /\ rowIndices[1].lineIndex = 1
    /\ rowIndices[1].endIndex > rowIndices[1].startIndex
    /\ rowIndices[2] = RowIndex(2, rowIndices[1].endIndex + 1, rowIndices[1].endIndex + 1)

\* C14: for every row r covered by an entry e and every column c in
\* [0, width), relativeCharPosition(c, r, width) = (r - e.startIndex) * width + c,
\* which lies in [0, (e.endIndex - e.startIndex + 1) * width); distinct
\* (row, column) pairs of one logical line map to distinct offsets.
C14_RelativeCharPosition ==
    \A width \in Widths, k \in 1..Len(rowIndices) :
        LET e == rowIndices[k]
            Covered == (e.startIndex..e.endIndex) \X (0..(width - 1))
            pos(cell) == relativeCharPosition(rowIndices, cell[2], cell[1], width)
        IN /\ \A cell \in Covered :
                /\ pos(cell) = (cell[1] - e.startIndex) * width + cell[2]
                /\ pos(cell) >= 0
                /\ pos(cell) < (e.endIndex - e.startIndex + 1) * width
           /\ \A a, b \in Covered : pos(a) = pos(b) => a = b

\* C20: after splice(start, deleteCount, items) or shiftElements(start, count,
\* offset) every retained entry is still a RowIndex record, startIndex(i+1) =
\* endIndex(i) + 1 and lineIndex increases by 1 from one entry to the next.
C20_EditsKeepIndexConsistent ==
    lastOp \in {"splice", "shiftElements"} =>
        /\ AllRowIndex(rowIndices)
        /\ Adjacent(rowIndices)
        /\ \A k \in 1..(Len(rowIndices) - 1) :
              rowIndices[k + 1].lineIndex = rowIndices[k].lineIndex + 1

(***************************************************************************)
(* Properties of the compositing of a row.                                 *)
(***************************************************************************)
\* the flags and the palette indices stored in the word of the styled character
StoredFlags == bufferLine[1].attr \div 262144

StoredFg == (bufferLine[1].attr \div 512) % 512

StoredBg == bufferLine[1].attr % 512

\* a row of one styled character has been refreshed, the cursor not on it
StyledRowRendered ==
    /\ Len(bufferLine) = 1
    /\ bufferLine[1].attr # defAttr
    /\ x = -1
    /\ rendered # << >>

\* the span that refresh opened for the character
Emitted == rendered[1][1].span

\* C15 (as stated): for every attribute word with the inverse flag set and a
\* stored background index of 257, whatever the stored foreground index and the
\* other flags, the emitted run has background index 15 and never 257.
C15_InversePinsStoredBackground ==
    (StyledRowRendered /\ HasFlag(StoredFlags, INVERSE) /\ StoredBg = 257)
    => Emitted.bgColor = <<15>>

\* C15 (amended): for every attribute word with the inverse flag set and a
\* stored foreground index of 257, whatever the stored background index and the
\* other flags, the emitted run has background index 15 and never 257.
C15_InversePinsSwappedBackground ==
    (StyledRowRendered /\ HasFlag(StoredFlags, INVERSE) /\ StoredFg = 257)
    => Emitted.bgColor = <<15>>

\* C15 (witness): a bold inverse character stored with foreground 257 on
\* background 3 was refreshed with background 15
C15_Witness ==
    /\ StyledRowRendered
    /\ bufferLine[1].attr = AttrWord(BOLD + INVERSE, 257, 3)
    /\ Emitted.bgColor = <<15>>
    /\ Emitted.fgColor = <<11>>

\* the colour class of a palette index: none from 256 on
ColorOf(index) == IF index < 256 THEN <<index>> ELSE << >>

\* C16 (as stated): for every attribute word with the bold flag set, the
\* inverse flag clear and a stored foreground index f < 8, the emitted
\* foreground index is f + 8 when bold rendering is enabled and stays f when it
\* is disabled by the capability flag; an index >= 8 is never changed by bold.
C16_BoldPromotesUnlessDisabled ==
    (/\ StyledRowRendered
     /\ HasFlag(StoredFlags, BOLD)
     /\ ~HasFlag(StoredFlags, INVERSE))
    => Emitted.fgColor =
         IF StoredFg < 8 /\ brokenBold = "false" THEN <<StoredFg + 8>>
         ELSE ColorOf(StoredFg)

\* C16 (amended): for every attribute word with the bold flag set, the inverse
\* flag clear and a stored foreground index f < 8, the emitted foreground index
\* is f + 8 whether bold rendering is enabled or disabled by the capability
\* flag; an index >= 8 is never changed by bold.
C16_BoldPromotesAlways ==
    (/\ StyledRowRendered
     /\ HasFlag(StoredFlags, BOLD)
     /\ ~HasFlag(StoredFlags, INVERSE))
    => Emitted.fgColor =
         IF StoredFg < 8 THEN <<StoredFg + 8>> ELSE ColorOf(StoredFg)

\* C16 (witness): with bold rendering disabled, a bold red character was
\* refreshed in bright red and without the bold style
C16_Witness ==
    /\ StyledRowRendered
    /\ brokenBold = "true"
    /\ bufferLine[1].attr = BoldRed
    /\ Emitted.fgColor = <<9>>
    /\ Emitted.classNames = << >>

\* a blank cell: its character is a space
Blank(cell) == cell.ch = " "

AllBlank(segment) == \A i \in 1..Len(segment) : Blank(segment[i])

RECURSIVE Concat(_)
Concat(segments) ==
    IF segments = << >> THEN << >> ELSE Head(segments) \o Concat(Tail(segments))

\* the segments of the row: what trimming then chunking yields
Segments == chunkArray(trimBlank(bufferLine, cols, defAttr), cols)

\* C17: for every row with more cells than the width, trimming then chunking
\* yields at least one segment, every segment but the last has exactly width
\* cells, the last has between 1 and width cells, and the segments concatenated
\* in order are a prefix of the row that contains every non-blank cell of it.
\* A refresh of the row composites one row per segment.
C17_ChunksArePrefixOfRow ==
    Len(bufferLine) > cols =>
        LET segments == Segments
            kept == Concat(segments)
        IN /\ Len(segments) >= 1
           /\ \A s \in 1..(Len(segments) - 1) : Len(segments[s]) = cols
           /\ Len(segments[Len(segments)]) \in 1..cols
           /\ kept = SubSeq(bufferLine, 1, Len(kept))
           /\ \A i \in 1..Len(bufferLine) : ~Blank(bufferLine[i]) => i <= Len(kept)
           /\ rendered # << >> => Len(rendered) = Len(segments)

\* C17 (witness): a row of four cells was refreshed at width 1 as the three
\* segments left by the trimming of its last cell
C17_Witness ==
    /\ Len(bufferLine) = MaxCells
    /\ cols = 1
    /\ ~Blank(bufferLine[1])
    /\ ~Blank(bufferLine[MaxCells - 2])
    /\ Blank(bufferLine[MaxCells - 1])
    /\ Blank(bufferLine[MaxCells])
    /\ Len(rendered) = MaxCells - 1

CellAt(row, i) == IF i + 1 <= Len(row) THEN row[i + 1] ELSE Cell(defAttr, " ", 1)

\* the columns of a row that are not skipped
Shown(row, width) == {i \in 0..(width - 1) : CellAt(row, i).width # 0}

\* the columns where a maximal span of cells sharing one non-default attribute
\* word starts, and the column after the span that starts at i (width-0 cells
\* belong to the span around them)
RunStarts(row, width) ==
    {i \in Shown(row, width) :
        /\ CellAt(row, i).attr # defAttr
        /\ \A j \in Shown(row, width) :
              (j < i /\ \A m \in Shown(row, width) : m <= j \/ m >= i)
              => CellAt(row, j).attr # CellAt(row, i).attr}

RunEnd(row, width, i) ==
    LET after == {j \in Shown(row, width) :
                    j > i /\ CellAt(row, j).attr # CellAt(row, i).attr}
    IN IF after = {} THEN width
       ELSE CHOOSE j \in after : \A m \in after : j <= m

\* the opening and closing of runs in what was written for a row
Marks(out) ==
    LET IsMark(event) == event.kind # "char"
    IN SelectSeq(out, IsMark)

\* every shown cell of the row has the same non-default attribute word
Uniform(row, width) ==
    /\ Len(row) >= width
    /\ \E i \in Shown(row, width) :
          /\ CellAt(row, i).attr # defAttr
          /\ \A j \in Shown(row, width) : CellAt(row, j).attr = CellAt(row, i).attr

\* the shown cells have one non-default word before column k, another from k on
ChangesOnceAt(row, width, k) ==
    /\ Len(row) >= width
    /\ k \in Shown(row, width)
    /\ CellAt(row, k).attr # defAttr
    /\ \E j \in Shown(row, width) :
          /\ j < k
          /\ CellAt(row, j).attr \notin {defAttr, CellAt(row, k).attr}
          /\ \A i \in Shown(row, width) :
                CellAt(row, i).attr = IF i < k THEN CellAt(row, j).attr
                                      ELSE CellAt(row, k).attr

\* C19: for a row not holding the cursor, one run is opened per maximal span
\* of cells sharing one non-default attribute word (width-0 cells skipped), in
\* order, and each is closed exactly once, where its span ends: before the next
\* run opens or at the end of the row. So a row with a single attribute change
\* at column k yields exactly two runs split at column k and a uniformly
\* attributed row exactly one run; a skipped width-0 cell never splits a run.
C19_OneRunPerAttributeSpan ==
    (x = -1 /\ rendered # << >>) =>
        \A s \in 1..Len(rendered) :
            LET row == overflowBuffer(bufferLine, cols)[s]
                marks == Marks(rendered[s])
                starts == RunStarts(row, cols)
                runs == Cardinality(starts)
            IN /\ Len(marks) = 2 * runs
               /\ \A n \in 1..runs :
                     /\ marks[(2 * n) - 1].kind = "open"
                     /\ marks[(2 * n) - 1].at \in starts
                     /\ marks[(2 * n) - 1].span
                          = openSpan(CellAt(row, marks[(2 * n) - 1].at).attr, brokenBold)
                     /\ marks[2 * n].kind = "close"
                     /\ marks[2 * n].at = RunEnd(row, cols, marks[(2 * n) - 1].at)
                     /\ n > 1 => marks[(2 * n) - 1].at >= marks[(2 * n) - 2].at
               /\ Uniform(row, cols) => runs = 1
               /\ \A k \in 1..(cols - 1) :
                     ChangesOnceAt(row, cols, k) =>
                        /\ runs = 2
                        /\ marks[2].at = k
                        /\ marks[3].at = k

\* C19 (witness): a row of three columns was refreshed into two runs split at
\* column 2, the first of them running over a width-0 cell of another word
C19_Witness ==
    /\ x = -1
    /\ cols = 3
    /\ Len(bufferLine) = 3
    /\ bufferLine[1].attr = BoldRed
    /\ bufferLine[2] = Cell(defAttr, "", 0)
    /\ bufferLine[3].attr = InverseDefault
    /\ Len(rendered) = 1
    /\ Len(Marks(rendered[1])) = 4
    /\ Marks(rendered[1])[2].at = 2
    /\ Marks(rendered[1])[3].at = 2

(***************************************************************************)
(* Properties of a pass of _refresh.                                       *)
(***************************************************************************)
\* the line of the buffer that row r of the screen shows
ShownLine(r) == linesGet(terminalLines, (r + ydisp) + 1)

\* the rows the pass wrote
RowsWritten == {pass.writes[k].row : k \in 1..Len(pass.writes)}

\* C23: in a refresh(start, end) with 0 <= start <= end, every row written
\* lies in start..min(end, rows - 1) and no row is written twice, whichever
\* lines are missing and whichever are wider than the terminal.
C23_RowsWrittenOnceWithinRange ==
    pass # NoPass =>
        /\ \A k \in 1..Len(pass.writes) :
               /\ pass.writes[k].row >= pass.start
               /\ pass.writes[k].row <= Min(pass.requested, TerminalRows - 1)
        /\ \A j, k \in 1..Len(pass.writes) :
               j # k => pass.writes[j].row # pass.writes[k].row

\* C23 (witness): a pass over the whole screen of a terminal of one column
\* found the line of the last row missing and wrote two rows from the chunks
\* of the over-wide line above it
C23_Witness ==
    /\ pass # NoPass
    /\ cols = 1
    /\ pass.start = 0
    /\ pass.requested = TerminalRows - 1
    /\ ShownLine(TerminalRows - 1) = NoLine
    /\ Len(ShownLine(TerminalRows - 2)) > cols
    /\ Len(pass.writes) = 2
    /\ pass.writes[1].y = TerminalRows - 2
    /\ pass.writes[2].y = TerminalRows - 2
    /\ pass.writes[1].row = TerminalRows - 2
    /\ pass.writes[2].row = TerminalRows - 3

\* the spans of the cursor override opened in an out
CursorOpens(out) ==
    {e \in 1..Len(out) : out[e].kind = "open" /\ out[e].span = cursorSpan}

\* C24: in a pass made with the cursor shown, the cursor override is applied
\* to at most one cell of at most one row written, also when the line of the
\* cursor is over-wide and written as several chunks.
C24_OneCursorCellPerPass ==
    (pass # NoPass /\ terminalCursor.shown) =>
        /\ \A k \in 1..Len(pass.writes) :
               Cardinality(CursorOpens(pass.writes[k].out)) <= 1
        /\ Cardinality({k \in 1..Len(pass.writes) :
                           CursorOpens(pass.writes[k].out) # {}}) <= 1

\* C25: a refresh asked for with end >= rows, no line being wider than the
\* terminal, ends at rows - 1, writes every row r of start..rows - 1 whose
\* line is there, and writes it with the composite of line r + ydisp.
C25_ClampedPassPaintsOwnLines ==
    (/\ pass # NoPass
     /\ pass.requested >= TerminalRows
     /\ \A i \in 1..Len(terminalLines) : Len(terminalLines[i]) <= cols) =>
        /\ pass.end = TerminalRows - 1
        /\ RowsWritten = {r \in pass.start..(TerminalRows - 1) : ShownLine(r) # NoLine}
        /\ \A k \in 1..Len(pass.writes) :
               pass.writes[k].out =
                   compositeRow(ShownLine(pass.writes[k].row), cols,
                                cursorColumn(terminalCursor, pass.writes[k].row,
                                             ybase, ydisp),
                                brokenBold)

(***************************************************************************)
(* Properties of the renderer's scheduling.                                *)
(***************************************************************************)
LeastStart(batch) ==
    CHOOSE s \in {batch[i].start : i \in 1..Len(batch)} :
        \A i \in 1..Len(batch) : s <= batch[i].start

GreatestEnd(batch) ==
    CHOOSE e \in {batch[i].end : i \in 1..Len(batch)} :
        \A i \in 1..Len(batch) : e >= batch[i].end

\* C5: the N >= 1 ranges queued before a frame paints are dispatched as one
\* refresh, which leaves the queue empty and no frame armed; its range is
\* [min of starts, max of ends] when N <= 4 and [0, rows - 1] when N > 4.
C5_OneMergedRefreshPerFrame ==
    lastFrame = "paint" =>
        /\ Len(lastBatch) >= 1
        /\ refreshing
        /\ refreshRowsQueue = << >>
        /\ framesPending = 0
        /\ painting = IF Len(lastBatch) <= 4
                      THEN Range(LeastStart(lastBatch), GreatestEnd(lastBatch))
                      ELSE Range(0, TerminalRows - 1)

\* C5 (witness): a frame has painted five queued single-row ranges
C5_Witness ==
    /\ lastFrame = "paint"
    /\ Len(lastBatch) = 5
    /\ \A i \in 1..5 : lastBatch[i] = Range(1, 1)
    /\ painting = Range(0, TerminalRows - 1)

\* C6: at most one frame callback is outstanding: queueRefresh arms one only
\* when none is armed, and a skipped frame replaces itself by exactly one.
C6_AtMostOneFrameArmed ==
    /\ framesPending \in {0, 1}
    /\ refreshAnimationFrame <=> (framesPending = 1)
    /\ lastFrame \in {"queueRefresh", "skip"} => framesPending = 1

\* C6 (witness): a frame was skipped with several ranges queued
C6_Witness ==
    /\ lastFrame = "skip"
    /\ Len(refreshRowsQueue) >= 2
    /\ framesPending = 1

\* C7: a fired frame skips exactly when the backlog is non-empty and fewer
\* than 5 consecutive frames were skipped before it; so at most 5 fired frames
\* in a row skip, and the skip counter is 0 after every painting frame.
C7_SkipsAtMostFiveFrames ==
    /\ [](skippedInARow <= MAX_REFRESH_FRAME_SKIP)
    /\ [](lastFrame = "paint" => refreshFramesSkipped = 0)
    /\ [][lastFrame' \in {"skip", "paint"} =>
            ((lastFrame' = "skip") <=>
                (writeBuffer > 0 /\ skippedInARow < MAX_REFRESH_FRAME_SKIP))]_vars

\* C8: a queueRefresh made while a refresh is in progress leaves the range
\* being painted as it is, appends its range to the queue and arms a frame;
\* the frame that paints next consumes the whole queue.
C8_QueueRefreshDuringRefresh ==
    /\ [][refreshing /\ lastFrame' = "queueRefresh" =>
            /\ painting' = painting
            /\ refreshing'
            /\ Len(refreshRowsQueue') = Len(refreshRowsQueue) + 1
            /\ SubSeq(refreshRowsQueue', 1, Len(refreshRowsQueue)) = refreshRowsQueue
            /\ refreshAnimationFrame'
            /\ framesPending' = 1]_vars
    /\ [][lastFrame' = "paint" =>
            lastBatch' = refreshRowsQueue /\ refreshRowsQueue' = << >>]_vars

\* C8 (witness): a range was queued during a refresh and a frame is armed for it
C8_Witness ==
    /\ refreshing
    /\ lastFrame = "queueRefresh"
    /\ painting = Range(0, 1)
    /\ refreshRowsQueue = <<Range(1, 1)>>
    /\ framesPending = 1

\* C21: provided every armed frame callback eventually runs (and a refresh
\* that has started returns), a range passed to queueRefresh is eventually
\* taken out of the queue by a frame that paints, at the position it was
\* queued at; this holds also along the behaviours whose write buffer stays
\* non-empty for ever.
C21_QueuedRangeEventuallyDispatched ==
    \A i \in 1..MaxQueue : \A range \in Ranges :
        (Len(refreshRowsQueue) >= i /\ refreshRowsQueue[i] = range)
            ~> (/\ lastFrame = "paint"
                /\ refreshRowsQueue = << >>
                /\ Len(lastBatch) >= i
                /\ lastBatch[i] = range)

\* C21 (witness): a frame has painted two queued ranges while the write buffer
\* is non-empty, which it does only after the skips are used up
C21_Witness ==
    /\ lastFrame = "paint"
    /\ writeBuffer > 0
    /\ lastBatch = <<Range(0, 0), Range(1, 1)>>
    /\ refreshRowsQueue = << >>

\* C22: between the steps of the scheduler a frame callback is armed exactly
\* when the queue holds a range; so a frame that fires finds a range in the
\* queue, and the merge of the ranges never reads an empty queue.
C22_ArmedIffQueued ==
    /\ refreshAnimationFrame <=> (refreshRowsQueue # << >>)
    /\ framesPending > 0 => Len(refreshRowsQueue) >= 1
    /\ lastFrame # "TypeError"

\* C22 (witness): a frame has fired on a queue of three ranges, and left the
\* queue empty and no frame armed
C22_Witness ==
    /\ lastFrame = "paint"
    /\ Len(lastBatch) = 3
    /\ refreshRowsQueue = << >>
    /\ ~refreshAnimationFrame
    /\ framesPending = 0

\* the reflow index under every sequence of calls
SpecReflow == Init /\ [][ReflowNext]_vars

\* the reflow index under the edits of a scroll region
SpecEdit == Init /\ [][EditNext]_vars

\* the compositing of a row under every sequence of writes and resizes
SpecComposite == InitComposite /\ [][CompositeNext]_vars

\* the compositing of a styled character for every attribute word
SpecAttr == InitComposite /\ [][AttrNext]_vars

\* the renderer under every interleaving of requests, frames and writes
SpecSched == Init /\ [][SchedNext]_vars

\* the renderer when every requested frame is run by the browser and every
\* refresh returns
SpecSchedLive ==
    /\ InitSched
    /\ [][SchedNext]_vars
    /\ WF_vars(RefreshLoopSkip \/ RefreshLoopPaint)
    /\ WF_vars(RefreshDone)

\* the pass of _refresh over every screen, cursor and range of rows
SpecRefresh == InitRefresh /\ [][RefreshNext]_vars

====
